---- MODULE Spec2Model ----
(***************************************************************************)
(* Model of the /post relay bot (src/old/main.py).                         *)
(*                                                                         *)
(* post_handler is a coroutine: it runs without interruption from one      *)
(* await to the next.  A task's position (pc) is the external call it has  *)
(* issued and is waiting for; one action resumes the coroutine with the    *)
(* outcome of that call (it returns, or it raises) and runs it up to the   *)
(* next await, where the next call is issued, or to its end.  The          *)
(* transport dispatches several events concurrently, one task per event.   *)
(*                                                                         *)
(* Every event carries a sender: Telegram fills `from` for every message   *)
(* of a (super)group, which is where CommandHandler("post") is used.       *)
(***************************************************************************)
EXTENDS Integers, Sequences, FiniteSets, TLC

\* ---------------------------------------------------------------- bounds
\* Number of events the transport dispatches (one task per event).
MaxTasks == 2
Tasks == 1..MaxTasks

\* ------------------------------------------------- configuration constants
\* Chat ids are kept as the decimal text of the source (they exceed 32 bits).
RESIDENT_CHAT_ID == "-1002614784999"
XECUT_CHAT_ID == "-1002089160630"
XECUT_CHANNEL_TAG == "xecut_live"

\* chat_id="@" + XECUT_CHANNEL_TAG
ChannelHandle == <<"@", XECUT_CHANNEL_TAG>>

\* telegram.constants.ChatMemberStatus
MEMBER == "member"
ADMINISTRATOR == "administrator"
OWNER == "creator"
RESTRICTED == "restricted"
LEFT == "left"
BANNED == "kicked"
ChatMemberStatus == {MEMBER, ADMINISTRATOR, OWNER, RESTRICTED, LEFT, BANNED}

\* The chats an inbound /post can come from: the source chat, or another one.
ChatIds == {XECUT_CHAT_ID, RESIDENT_CHAT_ID}

\* msg.reply_to_message: None, or a message of the source chat, named by its
\* message_id.  The message the p-th event replies to, when it replies to one,
\* is message p of the source chat.
None == 0
ReplyTargets(p) == {None, p}

\* ------------------------------------------------------------------ texts
\* A text is its fixed template and the links formatted into it, in order.
Link(host, path, id) == [host |-> host, path |-> path, message_id |-> id]

DenialText == [tmpl |-> "posting to Xecut Live requires hackspace resident status",
               links |-> <<>>]
UsageText == [tmpl |-> "send this command as a reply to a message",
              links |-> <<>>]
FailureText == [tmpl |-> "an error occurred, try again later",
                links |-> <<>>]
\* f"https://t.me/xecut_chat/{msg.reply_to_message.message_id}"
AnnounceText(reply_id) == [tmpl |-> "{link}",
                           links |-> <<Link("https://t.me", "xecut_chat", reply_id)>>]
\* Variant of the success text whose link points into the source chat.
SuccessTextSourceAlias(posted_id) ==
    [tmpl |-> "posted to <a href={link}>Xecut Live</a>",
     links |-> <<Link("https://t.me", "xecut_chat", posted_id)>>]

\* f'... <a href="https://t.me/{XECUT_CHANNEL_TAG}/{posted.message_id}">Xecut Live</a>'
SuccessText(posted_id) == [tmpl |-> "posted to <a href={link}>Xecut Live</a>",
                           links |-> <<Link("https://t.me", XECUT_CHANNEL_TAG, posted_id)>>]
NoText == [tmpl |-> "", links |-> <<>>]

\* os.getenv("XECUT_TG_API_KEY"): None when the variable is not set, the empty
\* text when it is set to nothing, or a bot token.
Unset == "<None>"
EnvValues == {Unset, "", "110201543:bot-token"}

\* ------------------------------------------------------------------ state
VARIABLES
    token,    \* the module-level `token`, read from the environment
    app,      \* the process: "start", "aborted" (RuntimeError) or "polling"
    pc,       \* task -> "idle", the call awaited, "done" (returned) or "raised"
    msg,      \* task -> update.effective_message of its event
    member,   \* task -> status returned by get_chat_member, "none" before
    posted,   \* task -> message_id of the message forward_message returned
    calls,    \* task -> the external calls the handler issued, in order
    results,  \* task -> how each of those calls ended: "ok" or "raised"
    channel,  \* timeline of the destination channel @xecut_live
    chat      \* task -> replies delivered to its invoking message in the source chat

vars == <<token, app, pc, msg, member, posted, calls, results, channel, chat>>

NoMsg == [chat_id |-> "", from_user |-> 0, reply_to_message |-> None]

Init ==
    /\ token \in EnvValues
    /\ app = "start"
    /\ pc = [p \in Tasks |-> "idle"]
    /\ msg = [p \in Tasks |-> NoMsg]
    /\ member = [p \in Tasks |-> "none"]
    /\ posted = [p \in Tasks |-> 0]
    /\ calls = [p \in Tasks |-> <<>>]
    /\ results = [p \in Tasks |-> <<>>]
    /\ channel = <<>>
    /\ chat = [p \in Tasks |-> <<>>]

\* ----------------------------------------------------------- outbound calls
GetChatMember(m) ==
    [api |-> "get_chat_member", to |-> <<RESIDENT_CHAT_ID>>,
     src |-> <<"user", m.from_user>>, text |-> NoText]
SendMessage(m) ==
    [api |-> "send_message", to |-> ChannelHandle,
     src |-> <<>>, text |-> AnnounceText(m.reply_to_message)]
ForwardMessage(m) ==
    [api |-> "forward_message", to |-> ChannelHandle,
     src |-> <<m.chat_id, m.reply_to_message>>, text |-> NoText]
ReplyText(m, t) ==
    [api |-> "reply_text", to |-> <<m.chat_id>>,
     src |-> <<>>, text |-> t]

\* The handler of task p issues call c and awaits it at position at.
Issue(p, c, at) ==
    /\ calls' = [calls EXCEPT ![p] = Append(@, c)]
    /\ pc' = [pc EXCEPT ![p] = at]

\* The awaited call of task p ended with r.
Ended(p, r) == results' = [results EXCEPT ![p] = Append(@, r)]

\* Variant of the except clause that only logs: it replies nothing and the
\* handler returns.
ExceptSilent(p) ==
    /\ pc' = [pc EXCEPT ![p] = "done"]
    /\ UNCHANGED calls

\* except Exception as exc: print(exc); await msg.reply_text(<failure>)
Except(p) == Issue(p, ReplyText(msg[p], FailureText), "reply_failure")

\* Variants of the membership test, as a slip in line 21 would make it:
\* a restricted user passes; the owner does not pass.
isAuthorizedLax(status) == status \in {MEMBER, ADMINISTRATOR, OWNER, RESTRICTED}
isAuthorizedNoOwner(status) == status \in {MEMBER, ADMINISTRATOR}

\* member.status in (MEMBER, ADMINISTRATOR, OWNER)
isAuthorized(status) == ~(status \notin {MEMBER, ADMINISTRATOR, OWNER})

\* ---------------------------------------------------------------- actions
\* Variant of the startup that tests `token is None`: an empty credential
\* passes.
StartupNoneOnly ==
    /\ app = "start"
    /\ app' = IF token = Unset THEN "aborted" ELSE "polling"
    /\ UNCHANGED <<token, pc, msg, member, posted, calls, results, channel, chat>>

\* Lines 43-49: `if not token` raises RuntimeError for None and for the empty
\* text; otherwise the application is built, the handler added, polling starts.
Startup ==
    /\ app = "start"
    /\ app' = IF token \in {Unset, ""} THEN "aborted" ELSE "polling"
    /\ UNCHANGED <<token, pc, msg, member, posted, calls, results, channel, chat>>

\* Variant of the dispatch step without the scope filter of lines 15-16.
DispatchUnfiltered(p) ==
    /\ app = "polling"
    /\ pc[p] = "idle"
    /\ \A q \in Tasks : q < p => pc[q] # "idle"
    /\ \E c \in ChatIds, r \in ReplyTargets(p) :
        LET m == [chat_id |-> c, from_user |-> p, reply_to_message |-> r] IN
        /\ msg' = [msg EXCEPT ![p] = m]
        /\ Issue(p, GetChatMember(m), "get_chat_member")
    /\ UNCHANGED <<token, app, member, posted, results, channel, chat>>

\* While the application polls (app.run_polling, line 49), the transport hands
\* an event to post_handler, which runs to its first await.
\* Events are numbered in their order of arrival.
Dispatch(p) ==
    /\ app = "polling"
    /\ pc[p] = "idle"
    /\ \A q \in Tasks : q < p => pc[q] # "idle"
    /\ \E c \in ChatIds, r \in ReplyTargets(p) :
        LET m == [chat_id |-> c, from_user |-> p, reply_to_message |-> r] IN
        /\ msg' = [msg EXCEPT ![p] = m]
        /\ IF m.chat_id # XECUT_CHAT_ID
             THEN /\ pc' = [pc EXCEPT ![p] = "done"]
                  /\ UNCHANGED calls
             ELSE Issue(p, GetChatMember(m), "get_chat_member")
    /\ UNCHANGED <<token, app, member, posted, results, channel, chat>>

\* Variant without the reply-target check of line 25: the allowed branch
\* always announces.
GetChatMemberReturnsNoTargetCheck(p) ==
    /\ pc[p] = "get_chat_member"
    /\ \E status \in ChatMemberStatus :
        /\ member' = [member EXCEPT ![p] = status]
        /\ IF ~isAuthorized(status)
             THEN Issue(p, ReplyText(msg[p], DenialText), "reply_denial")
             ELSE Issue(p, SendMessage(msg[p]), "send_message")
    /\ Ended(p, "ok")
    /\ UNCHANGED <<token, app, msg, posted, channel, chat>>

\* Variant that forwards before it announces: the allowed branch with a reply
\* target starts with the forward call.
GetChatMemberReturnsForwardFirst(p) ==
    /\ pc[p] = "get_chat_member"
    /\ \E status \in ChatMemberStatus :
        /\ member' = [member EXCEPT ![p] = status]
        /\ IF ~isAuthorized(status)
             THEN Issue(p, ReplyText(msg[p], DenialText), "reply_denial")
             ELSE IF msg[p].reply_to_message # None
                    THEN Issue(p, ForwardMessage(msg[p]), "forward_message")
                    ELSE Issue(p, ReplyText(msg[p], UsageText), "reply_usage")
    /\ Ended(p, "ok")
    /\ UNCHANGED <<token, app, msg, posted, channel, chat>>

\* Variant with a membership cache shared by the handlers: once some handler
\* has a status, the others decide by that status, not by their own.
GetChatMemberReturnsCached(p) ==
    /\ pc[p] = "get_chat_member"
    /\ \E status \in ChatMemberStatus :
        LET known == {q \in Tasks : q # p /\ member[q] # "none"}
            used == IF known = {} THEN status
                    ELSE member[CHOOSE q \in known : TRUE]
        IN
        /\ member' = [member EXCEPT ![p] = status]
        /\ IF ~isAuthorized(used)
             THEN Issue(p, ReplyText(msg[p], DenialText), "reply_denial")
             ELSE IF msg[p].reply_to_message # None
                    THEN Issue(p, SendMessage(msg[p]), "send_message")
                    ELSE Issue(p, ReplyText(msg[p], UsageText), "reply_usage")
    /\ Ended(p, "ok")
    /\ UNCHANGED <<token, app, msg, posted, channel, chat>>

\* Variant that checks the reply target before the status: without a reply
\* target everyone gets the usage notice.
GetChatMemberReturnsTargetFirst(p) ==
    /\ pc[p] = "get_chat_member"
    /\ \E status \in ChatMemberStatus :
        /\ member' = [member EXCEPT ![p] = status]
        /\ IF msg[p].reply_to_message = None
             THEN Issue(p, ReplyText(msg[p], UsageText), "reply_usage")
             ELSE IF ~isAuthorized(status)
                    THEN Issue(p, ReplyText(msg[p], DenialText), "reply_denial")
                    ELSE Issue(p, SendMessage(msg[p]), "send_message")
    /\ Ended(p, "ok")
    /\ UNCHANGED <<token, app, msg, posted, channel, chat>>

\* get_chat_member returns a ChatMember; lines 21-26 and 35-36 run.
GetChatMemberReturns(p) ==
    /\ pc[p] = "get_chat_member"
    /\ \E status \in ChatMemberStatus :
        /\ member' = [member EXCEPT ![p] = status]
        /\ IF ~isAuthorized(status)
             THEN Issue(p, ReplyText(msg[p], DenialText), "reply_denial")
             ELSE IF msg[p].reply_to_message # None
                    THEN Issue(p, SendMessage(msg[p]), "send_message")
                    ELSE Issue(p, ReplyText(msg[p], UsageText), "reply_usage")
    /\ Ended(p, "ok")
    /\ UNCHANGED <<token, app, msg, posted, channel, chat>>

\* Variant that answers a failed query like a non-member: with the denial.
GetChatMemberRaisesDenied(p) ==
    /\ pc[p] = "get_chat_member"
    /\ Ended(p, "raised")
    /\ Issue(p, ReplyText(msg[p], DenialText), "reply_denial")
    /\ UNCHANGED <<token, app, msg, member, posted, channel, chat>>

\* get_chat_member raises (network error, unknown user, service error).
GetChatMemberRaises(p) ==
    /\ pc[p] = "get_chat_member"
    /\ Ended(p, "raised")
    /\ Except(p)
    /\ UNCHANGED <<token, app, msg, member, posted, channel, chat>>

\* The announcement is posted to the channel; the handler issues the forward.
SendMessageReturns(p) ==
    /\ pc[p] = "send_message"
    /\ channel' = Append(channel,
                         [message_id |-> Len(channel) + 1, task |-> p,
                          text |-> calls[p][Len(calls[p])].text, forward_of |-> None])
    /\ Ended(p, "ok")
    /\ Issue(p, ForwardMessage(msg[p]), "forward_message")
    /\ UNCHANGED <<token, app, msg, member, posted, chat>>

\* Variant that swallows a failed announce send and goes on to the forward.
SendMessageRaisesIgnored(p) ==
    /\ pc[p] = "send_message"
    /\ Ended(p, "raised")
    /\ Issue(p, ForwardMessage(msg[p]), "forward_message")
    /\ UNCHANGED <<token, app, msg, member, posted, channel, chat>>

\* Variant that retries a failed announce send once before it gives up.
SendMessageRaisesRetry(p) ==
    /\ pc[p] = "send_message"
    /\ Ended(p, "raised")
    /\ IF Len(calls[p]) = 2
         THEN Issue(p, SendMessage(msg[p]), "send_message")
         ELSE Except(p)
    /\ UNCHANGED <<token, app, msg, member, posted, channel, chat>>

\* send_message raises: the except clause runs, the forward is skipped.
SendMessageRaises(p) ==
    /\ pc[p] = "send_message"
    /\ Ended(p, "raised")
    /\ Except(p)
    /\ UNCHANGED <<token, app, msg, member, posted, channel, chat>>

\* Variant whose confirmation link carries the id of the reply target instead
\* of the id of the forwarded copy.
ForwardMessageReturnsTargetId(p) ==
    /\ pc[p] = "forward_message"
    /\ LET id == Len(channel) + 1 IN
        /\ channel' = Append(channel,
                             [message_id |-> id, task |-> p,
                              text |-> NoText, forward_of |-> msg[p].reply_to_message])
        /\ posted' = [posted EXCEPT ![p] = id]
        /\ Issue(p, ReplyText(msg[p], SuccessText(msg[p].reply_to_message)),
                 "reply_success")
    /\ Ended(p, "ok")
    /\ UNCHANGED <<token, app, msg, member, chat>>

\* The forwarded copy is posted to the channel and returned as `posted`;
\* the handler issues the success reply.
ForwardMessageReturns(p) ==
    /\ pc[p] = "forward_message"
    /\ LET id == Len(channel) + 1 IN
        /\ channel' = Append(channel,
                             [message_id |-> id, task |-> p,
                              text |-> NoText, forward_of |-> msg[p].reply_to_message])
        /\ posted' = [posted EXCEPT ![p] = id]
        /\ Issue(p, ReplyText(msg[p], SuccessText(id)), "reply_success")
    /\ Ended(p, "ok")
    /\ UNCHANGED <<token, app, msg, member, chat>>

\* Variant with a compensating rollback: a failed forward takes the
\* announcement of the event out of the channel again.
ForwardMessageRaisesRollback(p) ==
    /\ pc[p] = "forward_message"
    /\ channel' = SelectSeq(channel, LAMBDA post : post.task # p)
    /\ Ended(p, "raised")
    /\ Except(p)
    /\ UNCHANGED <<token, app, msg, member, posted, chat>>

\* forward_message raises: the except clause runs; the channel is not touched.
ForwardMessageRaises(p) ==
    /\ pc[p] = "forward_message"
    /\ Ended(p, "raised")
    /\ Except(p)
    /\ UNCHANGED <<token, app, msg, member, posted, channel, chat>>

\* A reply issued inside the try block (denial, usage, success) is delivered;
\* the handler returns.
ReplyTextReturns(p) ==
    /\ pc[p] \in {"reply_denial", "reply_usage", "reply_success"}
    /\ chat' = [chat EXCEPT ![p] = Append(@, calls[p][Len(calls[p])].text)]
    /\ Ended(p, "ok")
    /\ pc' = [pc EXCEPT ![p] = "done"]
    /\ UNCHANGED <<token, app, msg, member, posted, calls, channel>>

\* Variant in which a reply that raises is swallowed: the handler returns
\* without the except clause.
ReplyTextRaisesSwallowed(p) ==
    /\ pc[p] \in {"reply_denial", "reply_usage", "reply_success"}
    /\ Ended(p, "raised")
    /\ pc' = [pc EXCEPT ![p] = "done"]
    /\ UNCHANGED <<token, app, msg, member, posted, calls, channel, chat>>

\* A reply issued inside the try block raises: the except clause runs.
ReplyTextRaises(p) ==
    /\ pc[p] \in {"reply_denial", "reply_usage", "reply_success"}
    /\ Ended(p, "raised")
    /\ Except(p)
    /\ UNCHANGED <<token, app, msg, member, posted, channel, chat>>

\* The failure reply of the except clause is delivered; the handler returns.
FailureReplyReturns(p) ==
    /\ pc[p] = "reply_failure"
    /\ chat' = [chat EXCEPT ![p] = Append(@, calls[p][Len(calls[p])].text)]
    /\ Ended(p, "ok")
    /\ pc' = [pc EXCEPT ![p] = "done"]
    /\ UNCHANGED <<token, app, msg, member, posted, calls, channel>>

\* Variant in which a failed failure reply starts the handling of the event
\* over, from the membership query.
FailureReplyRaisesRestart(p) ==
    /\ pc[p] = "reply_failure"
    /\ results' = [results EXCEPT ![p] = <<>>]
    /\ calls' = [calls EXCEPT ![p] = <<GetChatMember(msg[p])>>]
    /\ pc' = [pc EXCEPT ![p] = "get_chat_member"]
    /\ member' = [member EXCEPT ![p] = "none"]
    /\ UNCHANGED <<token, app, msg, posted, channel, chat>>

\* The failure reply of the except clause raises: nothing encloses it, the
\* exception leaves post_handler.
FailureReplyRaises(p) ==
    /\ pc[p] = "reply_failure"
    /\ Ended(p, "raised")
    /\ pc' = [pc EXCEPT ![p] = "raised"]
    /\ UNCHANGED <<token, app, msg, member, posted, calls, channel, chat>>

\* A step of the handler of event p.
Handler(p) ==
    \/ Dispatch(p)
    \/ GetChatMemberReturns(p)
    \/ GetChatMemberRaises(p)
    \/ SendMessageReturns(p)
    \/ SendMessageRaises(p)
    \/ ForwardMessageReturns(p)
    \/ ForwardMessageRaises(p)
    \/ ReplyTextReturns(p)
    \/ ReplyTextRaises(p)
    \/ FailureReplyReturns(p)
    \/ FailureReplyRaises(p)

Next ==
    \/ Startup
    \/ \E p \in Tasks : Handler(p)

\* The call the handler of event p awaits returns or raises.
Completion(p) ==
    \/ GetChatMemberReturns(p)
    \/ GetChatMemberRaises(p)
    \/ SendMessageReturns(p)
    \/ SendMessageRaises(p)
    \/ ForwardMessageReturns(p)
    \/ ForwardMessageRaises(p)
    \/ ReplyTextReturns(p)
    \/ ReplyTextRaises(p)
    \/ FailureReplyReturns(p)
    \/ FailureReplyRaises(p)

Spec == Init /\ [][Next]_vars

\* Every external call eventually returns or fails (the transport times out
\* a call that hangs): an awaited call does not stay pending for ever.
FairSpec == Spec /\ \A p \in Tasks : WF_vars(Completion(p))

\* ------------------------------------------------------------- properties
\* What the claims speak of, read off the state.
Residents == {"member", "administrator", "creator"}
Finished(p) == pc[p] \in {"done", "raised"}
InScope(p) == pc[p] # "idle" /\ msg[p].chat_id = XECUT_CHAT_ID
CallIdx(p) == 1..Len(calls[p])
\* The positions in the call sequence of task p of the calls to api.
CallsTo(p, api) == {i \in CallIdx(p) : calls[p][i].api = api}
\* The positions of the replies with text t.
RepliesWith(p, t) == {i \in CallsTo(p, "reply_text") : calls[p][i].text = t}
\* The posts of task p in the channel.
PostsOf(p) == {i \in 1..Len(channel) : channel[i].task = p}

\* C1: an announce send or a forward is issued only after the membership query
\* of the same event returned member, administrator or owner; an unauthorized
\* user with a reply target gets exactly one membership query, no announce, no
\* forward and one denial reply.
C1_AuthorizationGatesRelaying ==
    \A p \in Tasks :
        /\ \A i \in CallsTo(p, "send_message") \cup CallsTo(p, "forward_message") :
            /\ member[p] \in Residents
            /\ \E j \in CallsTo(p, "get_chat_member") :
                j < i /\ j <= Len(results[p]) /\ results[p][j] = "ok"
        /\ ( /\ Finished(p)
             /\ member[p] \in ChatMemberStatus \ Residents
             /\ msg[p].reply_to_message # None )
           => /\ Cardinality(CallsTo(p, "get_chat_member")) = 1
              /\ CallsTo(p, "send_message") = {}
              /\ CallsTo(p, "forward_message") = {}
              /\ Cardinality(RepliesWith(p, DenialText)) = 1
              /\ PostsOf(p) = {}

C1_Witness ==
    \E p, q \in Tasks :
        /\ pc[p] = "done" /\ member[p] = "left" /\ msg[p].reply_to_message # None
        /\ chat[p] = <<DenialText>>
        /\ pc[q] = "forward_message" /\ member[q] = "member"

\* The decision the handler took for task p once the query returned: it went
\* on to the reply-target check (allowed) or it issued the denial (denied).
Allowed(p) ==
    \/ calls[p][2].api = "send_message"
    \/ calls[p][2] = ReplyText(msg[p], UsageText)
Denied(p) == calls[p][2] = ReplyText(msg[p], DenialText)

\* C2: the handler allows exactly the statuses member, administrator and owner
\* and denies restricted, left and kicked; a query that fails (no status at
\* all) never leads to the allowed branch.
C2_AuthorizationDecision ==
    \A p \in Tasks :
        /\ member[p] # "none" =>
            /\ Len(calls[p]) >= 2
            /\ Allowed(p) # Denied(p)
            /\ member[p] = "member" => Allowed(p)
            /\ member[p] = "administrator" => Allowed(p)
            /\ member[p] = "creator" => Allowed(p)
            /\ member[p] = "restricted" => Denied(p)
            /\ member[p] = "left" => Denied(p)
            /\ member[p] = "kicked" => Denied(p)
        /\ (results[p] # <<>> /\ results[p][1] = "raised") =>
            /\ member[p] = "none"
            /\ ~Allowed(p)

C2_Witness ==
    \E p, q \in Tasks :
        /\ member[p] = "creator" /\ Allowed(p)
        /\ member[q] = "restricted" /\ Denied(q)

\* C3: an event from another chat than the source chat causes no membership
\* query, no announce, no forward and no reply, and the step that handles it
\* leaves the destination channel and the source chat as they were.
C3_OutOfScopeState ==
    \A p \in Tasks :
        (pc[p] # "idle" /\ msg[p].chat_id # XECUT_CHAT_ID)
        => /\ pc[p] = "done"
           /\ calls[p] = <<>>
           /\ results[p] = <<>>
           /\ chat[p] = <<>>
           /\ PostsOf(p) = {}
C3_OutOfScopeStep ==
    \A p \in Tasks :
        (pc[p] = "idle" /\ pc'[p] # "idle" /\ msg'[p].chat_id # XECUT_CHAT_ID)
        => /\ channel' = channel
           /\ chat' = chat
           /\ calls' = calls
C3_ScopeFilter == []C3_OutOfScopeState /\ [][C3_OutOfScopeStep]_vars

C3_Witness ==
    \E p, q \in Tasks :
        /\ pc[p] = "done" /\ msg[p].chat_id = RESIDENT_CHAT_ID
        /\ msg[p].reply_to_message # None
        /\ Len(channel) = 2 /\ chat[q] # <<>>

\* The calls the program can issue at all (no delete, no edit).
KnownApis == {"get_chat_member", "send_message", "forward_message", "reply_text"}
\* Call i of task p has ended, with result r.
EndedWith(p, i, r) == i <= Len(results[p]) /\ results[p][i] = r

\* C4: a forward is issued only after the announce send of the same event
\* returned; when the announce send raises, no forward is ever issued, nothing
\* of the event reaches the channel, and the one call that follows is the
\* generic failure reply.
C4_ForwardOnlyAfterAnnounce ==
    \A p \in Tasks :
        /\ \A i \in CallsTo(p, "forward_message") :
            \E j \in CallsTo(p, "send_message") : j < i /\ EndedWith(p, j, "ok")
        /\ \A j \in CallsTo(p, "send_message") :
            EndedWith(p, j, "raised")
            => /\ CallsTo(p, "forward_message") = {}
               /\ PostsOf(p) = {}
               /\ Len(calls[p]) = j + 1
               /\ calls[p][j + 1] = ReplyText(msg[p], FailureText)
               /\ pc[p] \in {"reply_failure", "done", "raised"}

C4_Witness ==
    \E p \in Tasks :
        /\ pc[p] = "done"
        /\ results[p] = <<"ok", "raised", "ok">>
        /\ calls[p][2].api = "send_message"
        /\ chat[p] = <<FailureText>>

\* C5: when the forward raises after the announce send returned, exactly one
\* generic failure reply is issued, there is no second announce or forward, no
\* call removes or edits anything, and the announcement is, and stays, in the
\* channel.
C5_ForwardFailureKeepsAnnouncement ==
    \A p \in Tasks :
        \A i \in CallsTo(p, "forward_message") :
            EndedWith(p, i, "raised")
            => /\ Cardinality(RepliesWith(p, FailureText)) = 1
               /\ Cardinality(CallsTo(p, "send_message")) = 1
               /\ Cardinality(CallsTo(p, "forward_message")) = 1
               /\ \A k \in CallIdx(p) : calls[p][k].api \in KnownApis
               /\ Len(calls[p]) = i + 1
               /\ calls[p][i + 1] = ReplyText(msg[p], FailureText)
               /\ \E k \in PostsOf(p) :
                    /\ channel[k].text = AnnounceText(msg[p].reply_to_message)
                    /\ channel[k].forward_of = None
               /\ Cardinality(PostsOf(p)) = 1

C5_Witness ==
    \E p \in Tasks :
        /\ Finished(p)
        /\ EndedWith(p, 3, "raised")
        /\ calls[p][3].api = "forward_message"
        /\ \E k \in PostsOf(p) : channel[k].text = AnnounceText(msg[p].reply_to_message)

\* The call sequence of the success path of task p.
SuccessPath(p) ==
    <<GetChatMember(msg[p]), SendMessage(msg[p]), ForwardMessage(msg[p]),
      ReplyText(msg[p], SuccessText(posted[p]))>>

\* C6: for an authorized user with a reply target and no call failing, the
\* calls are the membership query, the announce send, the forward and the
\* success reply, in this order and once each; a call is issued only when
\* every earlier call has returned.
C6_SuccessPathOrder ==
    \A p \in Tasks :
        /\ Len(calls[p]) <= Len(results[p]) + 1
        /\ Finished(p) <=> (pc[p] # "idle" /\ Len(calls[p]) = Len(results[p]))
        /\ ( /\ member[p] \in Residents
             /\ msg[p].reply_to_message # None
             /\ \A i \in 1..Len(results[p]) : results[p][i] = "ok" )
           => /\ Len(calls[p]) <= 4
              /\ \A i \in CallIdx(p) : calls[p][i].api = SuccessPath(p)[i].api
              /\ pc[p] = "done" =>
                    /\ calls[p] = SuccessPath(p)
                    /\ \E i, j \in PostsOf(p) :
                        /\ i < j
                        /\ PostsOf(p) = {i, j}
                        /\ channel[i].forward_of = None
                        /\ channel[j].forward_of = msg[p].reply_to_message
                    /\ chat[p] = <<SuccessText(posted[p])>>

C6_Witness ==
    \E p \in Tasks :
        /\ pc[p] = "done"
        /\ results[p] = <<"ok", "ok", "ok", "ok">>
        /\ calls[p] = SuccessPath(p)

\* An authorized user issued the command without a reply target, and the
\* handling is over.
FinishedNoTarget(p) ==
    Finished(p) /\ member[p] \in Residents /\ msg[p].reply_to_message = None

\* C7, as claimed: for an authorized user without a reply target the handler
\* issues exactly one reply, the usage notice, and besides it only the
\* membership query.
C7_Original ==
    \A p \in Tasks :
        FinishedNoTarget(p)
        => /\ Cardinality(CallsTo(p, "reply_text")) = 1
           /\ calls[p] = <<GetChatMember(msg[p]), ReplyText(msg[p], UsageText)>>

\* C7, amended: for an authorized user without a reply target the handler
\* issues one membership query, then the usage notice, once, and no announce
\* and no forward; these are all its calls when the usage reply is delivered,
\* and when the usage reply raises, the one further call is the generic
\* failure reply.
C7_UsageNotice ==
    \A p \in Tasks :
        FinishedNoTarget(p)
        => /\ CallsTo(p, "get_chat_member") = {1}
           /\ RepliesWith(p, UsageText) = {2}
           /\ CallsTo(p, "send_message") = {}
           /\ CallsTo(p, "forward_message") = {}
           /\ PostsOf(p) = {}
           /\ results[p][2] = "ok" =>
                /\ Len(calls[p]) = 2
                /\ chat[p] = <<UsageText>>
           /\ results[p][2] = "raised" =>
                /\ Len(calls[p]) = 3
                /\ calls[p][3] = ReplyText(msg[p], FailureText)

C7_Witness ==
    \E p, q \in Tasks :
        /\ FinishedNoTarget(p) /\ chat[p] = <<UsageText>>
        /\ FinishedNoTarget(q) /\ results[q] = <<"ok", "raised", "ok">>

\* C8, as claimed: when the membership query fails there is no announce and no
\* forward, and the reply is the denial notice.
C8_Original ==
    \A p \in Tasks :
        EndedWith(p, 1, "raised")
        => /\ CallsTo(p, "send_message") = {}
           /\ CallsTo(p, "forward_message") = {}
           /\ calls[p][2] = ReplyText(msg[p], DenialText)

\* C8, amended: when the membership query fails there is no announce and no
\* forward, and the reply is the generic failure notice, not the denial
\* notice a non-member receives.
C8_QueryFailure ==
    \A p \in Tasks :
        EndedWith(p, 1, "raised")
        => /\ member[p] = "none"
           /\ CallsTo(p, "send_message") = {}
           /\ CallsTo(p, "forward_message") = {}
           /\ PostsOf(p) = {}
           /\ Len(calls[p]) = 2
           /\ calls[p][2] = ReplyText(msg[p], FailureText)
           /\ RepliesWith(p, DenialText) = {}
           /\ chat[p] \in {<<>>, <<FailureText>>}

C8_Witness ==
    \E p, q \in Tasks :
        /\ pc[p] = "done" /\ results[p] = <<"raised", "ok">>
        /\ chat[p] = <<FailureText>>
        /\ pc[q] = "done" /\ member[q] = "left" /\ chat[q] = <<DenialText>>

\* C9: no exception leaves post_handler, whatever calls fail.
C9_NoErrorEscapes == \A p \in Tasks : pc[p] # "raised"

\* The replies of task p issued inside the try block that raised.
FailedTryReplies(p) ==
    {i \in CallsTo(p, "reply_text") :
        calls[p][i].text # FailureText /\ EndedWith(p, i, "raised")}

\* C10, as claimed: every in-scope event gets exactly one reply call, on every
\* path: never two, and one once the handling is over.
C10_Original ==
    \A p \in Tasks :
        InScope(p)
        => /\ Cardinality(CallsTo(p, "reply_text")) <= 1
           /\ Finished(p) => Cardinality(CallsTo(p, "reply_text")) = 1

\* C10, amended: every in-scope event gets one reply call, or two: two exactly
\* when the denial, usage or success reply itself raised, and then the second
\* is the generic failure reply; never zero, never more than two, and at most
\* one reply is delivered.
C10_ReplyCalls ==
    \A p \in Tasks :
        InScope(p)
        => /\ Cardinality(CallsTo(p, "reply_text")) <= 2
           /\ Cardinality(RepliesWith(p, FailureText)) <= 1
           /\ Len(chat[p]) <= 1
           /\ Finished(p) =>
                /\ Cardinality(CallsTo(p, "reply_text")) >= 1
                /\ calls[p][Len(calls[p])].api = "reply_text"
                /\ Cardinality(CallsTo(p, "reply_text")) = 2
                    <=> FailedTryReplies(p) # {}
                /\ FailedTryReplies(p) # {}
                    => calls[p][Len(calls[p])] = ReplyText(msg[p], FailureText)

C10_Witness ==
    \E p, q \in Tasks :
        /\ pc[p] = "done"
        /\ Cardinality(CallsTo(p, "reply_text")) = 2
        /\ chat[p] = <<FailureText>>
        /\ pc[q] = "done"
        /\ Cardinality(CallsTo(q, "reply_text")) = 1
        /\ chat[q] = <<SuccessText(posted[q])>>

\* C11: in the handling of one event the membership query is issued exactly
\* once when the event is in scope (and never otherwise), and the announce
\* send and the forward are issued at most once each, whatever the calls
\* return; the channel gets at most one announcement and one forwarded copy
\* per event.
C11_NoRetry ==
    \A p \in Tasks :
        /\ InScope(p) => CallsTo(p, "get_chat_member") = {1}
        /\ ~InScope(p) => CallsTo(p, "get_chat_member") = {}
        /\ Cardinality(CallsTo(p, "send_message")) <= 1
        /\ Cardinality(CallsTo(p, "forward_message")) <= 1
        /\ Cardinality({k \in PostsOf(p) : channel[k].forward_of = None}) <= 1
        /\ Cardinality({k \in PostsOf(p) : channel[k].forward_of # None}) <= 1

C11_Witness ==
    \E p, q \in Tasks :
        /\ Finished(p) /\ EndedWith(p, 2, "raised")
        /\ calls[p][2].api = "send_message"
        /\ Finished(q) /\ EndedWith(q, 3, "raised")
        /\ calls[q][3].api = "forward_message"

SuccessReplies(p) ==
    {i \in CallsTo(p, "reply_text") :
        calls[p][i].text.tmpl = "posted to <a href={link}>Xecut Live</a>"}

\* C13: the message id in the confirmation link of the success reply is the
\* id the forward call of the same event returned, which is the id the channel
\* gave to the forwarded copy (also where it differs from the id of
\* the reply target); the id in the announcement link is the id of the reply
\* target.
C13_IdentifierRoundTrip ==
    \A p \in Tasks :
        /\ \A i \in SuccessReplies(p) :
            /\ Len(calls[p][i].text.links) = 1
            /\ calls[p][i].text.links[1].message_id = posted[p]
            /\ posted[p] \in PostsOf(p)
            /\ channel[posted[p]].message_id = posted[p]
            /\ channel[posted[p]].forward_of = msg[p].reply_to_message
        /\ \A i \in CallsTo(p, "send_message") :
            /\ msg[p].reply_to_message # None
            /\ Len(calls[p][i].text.links) = 1
            /\ calls[p][i].text.links[1].message_id = msg[p].reply_to_message

\* A success reply whose forwarded copy got another id than the reply target has.
C13_Witness ==
    \E p \in Tasks :
        /\ pc[p] = "done"
        /\ SuccessReplies(p) = {4}
        /\ posted[p] # msg[p].reply_to_message
        /\ chat[p] = <<SuccessText(posted[p])>>

\* The calls of task p awaited inside the try block that raised.
RaisedInTry(p) ==
    {i \in CallIdx(p) :
        calls[p][i] # ReplyText(msg[p], FailureText) /\ EndedWith(p, i, "raised")}

\* C14, as claimed: after a successful forward the reply is the confirmation
\* and there is no generic failure reply; a generic failure reply is issued
\* only when the membership query, the announce send or the forward raised.
C14_Original ==
    \A p \in Tasks :
        /\ \A i \in CallsTo(p, "forward_message") :
            EndedWith(p, i, "ok")
            => /\ SuccessReplies(p) # {}
               /\ RepliesWith(p, FailureText) = {}
        /\ RepliesWith(p, FailureText) # {}
            => \E i \in RaisedInTry(p) :
                calls[p][i].api \in {"get_chat_member", "send_message", "forward_message"}

\* C14, amended: after a successful forward the next call is the confirmation,
\* and when it is delivered it is the only reply; the generic failure reply is
\* issued exactly when a call awaited inside the try block raised: the
\* membership query, the announce send, the forward, or the denial, usage or
\* confirmation reply itself.
C14_ConfirmationAfterForward ==
    \A p \in Tasks :
        /\ \A i \in CallsTo(p, "forward_message") :
            EndedWith(p, i, "ok")
            => /\ Len(calls[p]) >= i + 1
               /\ calls[p][i + 1] = ReplyText(msg[p], SuccessText(posted[p]))
               /\ EndedWith(p, i + 1, "ok")
                    => /\ RepliesWith(p, FailureText) = {}
                       /\ chat[p] = <<SuccessText(posted[p])>>
                       /\ pc[p] = "done"
        /\ RepliesWith(p, FailureText) # {} <=> RaisedInTry(p) # {}
        /\ Cardinality(RaisedInTry(p)) <= 1

\* A confirmation delivered after a successful forward, and a generic failure
\* reply after a successful forward whose confirmation raised.
C14_Witness ==
    \E p, q \in Tasks :
        /\ pc[p] = "done" /\ chat[p] = <<SuccessText(posted[p])>>
        /\ pc[q] = "done" /\ results[q] = <<"ok", "ok", "ok", "raised", "ok">>
        /\ chat[q] = <<FailureText>>

\* The calls of the try block for event m, given the status its query
\* returned ("none": no status) and the id its forward returned.
TryCalls(m, status, posted_id) ==
    IF m.chat_id # "-1002089160630" THEN <<>>
    ELSE IF status = "none" THEN <<GetChatMember(m)>>
    ELSE IF status \notin Residents
        THEN <<GetChatMember(m), ReplyText(m, DenialText)>>
    ELSE IF m.reply_to_message = None
        THEN <<GetChatMember(m), ReplyText(m, UsageText)>>
    ELSE <<GetChatMember(m), SendMessage(m), ForwardMessage(m),
           ReplyText(m, SuccessText(posted_id))>>

\* The first call that raised, 0 when none did.
FirstRaised(res) ==
    LET bad == {i \in 1..Len(res) : res[i] = "raised"} IN
    IF bad = {} THEN 0 ELSE CHOOSE i \in bad : \A j \in bad : i <= j

\* The calls an event issues as a function of the event and of the results of
\* its own calls, and of nothing else.
OwnCalls(m, status, posted_id, res) ==
    LET w == TryCalls(m, status, posted_id)
        k == FirstRaised(res)
        n == IF Len(res) + 1 <= Len(w) THEN Len(res) + 1 ELSE Len(w)
    IN IF k = 0 THEN SubSeq(w, 1, n)
       ELSE Append(SubSeq(w, 1, k), ReplyText(m, FailureText))

\* The replies of task p that were delivered.
Delivered(p) == {i \in CallsTo(p, "reply_text") : EndedWith(p, i, "ok")}

\* What belongs to the handling of event p.
Local(p) == <<pc[p], msg[p], member[p], posted[p], calls[p], results[p], chat[p]>>

\* C15: the calls issued and the reply produced for an event are determined
\* by the event and the results of its own calls, under every interleaving,
\* and a step of one handler changes nothing that belongs to another.
C15_Determined ==
    \A p \in Tasks :
        /\ calls[p] = OwnCalls(msg[p], member[p], posted[p], results[p])
        /\ Cardinality(Delivered(p)) <= 1
        /\ chat[p] = IF Delivered(p) = {} THEN <<>>
                     ELSE <<calls[p][CHOOSE i \in Delivered(p) : TRUE].text>>
C15_Frame ==
    \A p, q \in Tasks :
        (p # q /\ pc'[p] # pc[p])
        => /\ Local(q)' = Local(q)
           /\ \A k \in 1..Len(channel) : channel'[k] = channel[k]
C15_Independence == []C15_Determined /\ [][C15_Frame]_vars

\* Two handlers in flight at once, both past their first call.
C15_Witness ==
    \E p, q \in Tasks :
        /\ p # q
        /\ pc[p] = "forward_message" /\ pc[q] = "reply_denial"
        /\ Len(channel) = 1

\* C16: with the credential absent or empty the process aborts at startup: the
\* application is never built, polling never starts, no event is handled and
\* no call is made; whatever a handler does, it does while the application
\* polls with a credential.
C16_MissingCredentialFatal ==
    /\ token \in {"<None>", ""}
        => /\ app \in {"start", "aborted"}
           /\ \A p \in Tasks : pc[p] = "idle" /\ calls[p] = <<>> /\ chat[p] = <<>>
           /\ channel = <<>>
    /\ (\E p \in Tasks : pc[p] # "idle")
        => app = "polling" /\ token \notin {"<None>", ""}

C16_Witness == app = "aborted" /\ token = ""

\* The handling of event p took the all-success path and is over.
AllSucceeded(p) ==
    pc[p] = "done" /\ results[p] = <<"ok", "ok", "ok", "ok">> /\ Len(calls[p]) = 4

\* The links of the success reply of task p, as a set.
SuccessLinks(p) ==
    {calls[p][4].text.links[i] : i \in 1..Len(calls[p][4].text.links)}

\* C17, as claimed: on the all-success path the success reply holds the
\* announcement link (source alias, reply-target id) and the confirmation link
\* (channel tag, forwarded id).
C17_Original ==
    \A p \in Tasks :
        AllSucceeded(p)
        => /\ Link("https://t.me", "xecut_chat", msg[p].reply_to_message)
                \in SuccessLinks(p)
           /\ Link("https://t.me", "xecut_live", posted[p]) \in SuccessLinks(p)

\* C17, amended: on the all-success path the success reply holds exactly one
\* link, the confirmation link (channel tag, forwarded id); the announcement
\* link (source alias, reply-target id) is in the announcement posted to the
\* channel, not in the reply.
C17_SuccessReplyLinks ==
    \A p \in Tasks :
        AllSucceeded(p)
        => /\ SuccessReplies(p) = {4}
           /\ calls[p][4].text.links = <<Link("https://t.me", "xecut_live", posted[p])>>
           /\ chat[p] = <<calls[p][4].text>>
           /\ calls[p][2].text.links
                = <<Link("https://t.me", "xecut_chat", msg[p].reply_to_message)>>
           /\ \E k \in PostsOf(p) : channel[k].text = calls[p][2].text

C17_Witness ==
    \E p \in Tasks :
        /\ AllSucceeded(p)
        /\ posted[p] = 2
        /\ msg[p].reply_to_message = 1
        /\ Len(chat[p]) = 1

\* C18: the status is checked before the reply target: an unauthorized user
\* without a reply target is answered with the denial notice and never with
\* the usage notice, and the usage notice goes only to users whose query
\* returned member, administrator or owner.
C18_AuthorizationBeforeReplyTarget ==
    \A p \in Tasks :
        /\ ( /\ member[p] \in {"restricted", "left", "kicked"}
             /\ msg[p].reply_to_message = None )
           => /\ calls[p][2] = ReplyText(msg[p], DenialText)
              /\ RepliesWith(p, UsageText) = {}
              /\ UsageText \notin {chat[p][i] : i \in 1..Len(chat[p])}
              /\ EndedWith(p, 2, "ok") => chat[p] = <<DenialText>>
        /\ RepliesWith(p, UsageText) # {}
           => /\ member[p] \in {"member", "administrator", "creator"}
              /\ EndedWith(p, 1, "ok")
              /\ msg[p].reply_to_message = None

C18_Witness ==
    \E p, q \in Tasks :
        /\ pc[p] = "done" /\ member[p] = "kicked"
        /\ msg[p].reply_to_message = None /\ chat[p] = <<DenialText>>
        /\ pc[q] = "done" /\ member[q] = "administrator"
        /\ chat[q] = <<UsageText>>

\* How the handling of an in-scope event ended.
Unauthorized(p) ==
    member[p] \in {"restricted", "left", "kicked"} /\ RaisedInTry(p) = {}
NoReplyTarget(p) ==
    /\ member[p] \in Residents
    /\ msg[p].reply_to_message = None
    /\ RaisedInTry(p) = {}
Success(p) == SuccessReplies(p) # {} /\ RaisedInTry(p) = {}
TransportFailure(p) == RaisedInTry(p) # {}
Outcomes(p) ==
    {o \in {"Unauthorized", "NoReplyTarget", "Success", "TransportFailure"} :
        \/ o = "Unauthorized" /\ Unauthorized(p)
        \/ o = "NoReplyTarget" /\ NoReplyTarget(p)
        \/ o = "Success" /\ Success(p)
        \/ o = "TransportFailure" /\ TransportFailure(p)}

\* How far the handler of an event is.
Rank(at) ==
    CASE at = "idle" -> 0
      [] at = "get_chat_member" -> 1
      [] at = "send_message" -> 2
      [] at = "forward_message" -> 3
      [] at \in {"reply_denial", "reply_usage", "reply_success"} -> 4
      [] at = "reply_failure" -> 5
      [] at \in {"done", "raised"} -> 6

\* C19: when every call eventually returns or fails, the handling of every
\* dispatched event eventually finishes; an in-scope event finishes in exactly
\* one of Unauthorized, NoReplyTarget, Success, TransportFailure; and every
\* step takes the handler forward, never back to an earlier call.
C19_OneOutcome ==
    \A p \in Tasks :
        (InScope(p) /\ Finished(p)) => Cardinality(Outcomes(p)) = 1
C19_Forward ==
    \A p \in Tasks :
        /\ Rank(pc'[p]) >= Rank(pc[p])
        /\ (Local(p)' # Local(p)) => Rank(pc'[p]) > Rank(pc[p])
C19_Termination ==
    /\ \A p \in Tasks : [](pc[p] # "idle" => <>Finished(p))
    /\ []C19_OneOutcome
    /\ [][C19_Forward]_vars

\* Handlings that ended in each of the four outcomes are reachable; this one
\* shows a failure next to a success.
C19_Witness ==
    \E p, q \in Tasks :
        /\ Finished(p) /\ Outcomes(p) = {"TransportFailure"}
        /\ Finished(q) /\ Outcomes(q) = {"Success"}

====
